---- MODULE Spec2Model ----
(***************************************************************************)
(* ShaderToy canvas recorder.                                              *)
(*                                                                         *)
(* Spec      : src/src/content.ts, its two entry points called as the      *)
(*             popup's buttons allow                                       *)
(* SpecPopup : src/src/popup.tsx together with src/src/content.ts          *)
(* SpecJs    : the packaged variant src/shadertoy-recorder/content.js      *)
(* SpecSelect: the profile selection (mimeTypes.find) as a pure function   *)
(*                                                                         *)
(* The MediaRecorder, the media tracks, the microphone permission, the     *)
(* clock and the canvas are the browser's; they are modelled as the        *)
(* environment, following the W3C MediaStream Recording event order        *)
(* (start, dataavailable*, [error], dataavailable, stop).                  *)
(***************************************************************************)
EXTENDS Integers, Sequences, FiniteSets, TLC

\* ---------------------------------------------------------------- bounds
MaxCalls == 2           \* startRecording invocations in one behaviour
MaxChunks == 2          \* dataavailable events per encoder

Calls == 1..MaxCalls
NoCall == 0             \* mediaRecorder === null

\* ------------------------------------------------------- character strings
\* Strings the code inspects character by character are sequences of
\* one-character strings.
Chars(m) ==
  CASE m = "video/mp4; codecs=\"avc1.42E01E, mp4a.40.2\"" -> <<"v","i","d","e","o","/","m","p","4",";"," ","c","o","d","e","c","s","=","\"","a","v","c","1",".","4","2","E","0","1","E",","," ","m","p","4","a",".","4","0",".","2","\"">>
    [] m = "video/webm; codecs=\"vp9, opus\"" -> <<"v","i","d","e","o","/","w","e","b","m",";"," ","c","o","d","e","c","s","=","\"","v","p","9",","," ","o","p","u","s","\"">>
    [] m = "video/webm; codecs=\"vp8, opus\"" -> <<"v","i","d","e","o","/","w","e","b","m",";"," ","c","o","d","e","c","s","=","\"","v","p","8",","," ","o","p","u","s","\"">>
    [] m = "video/webm; codecs=\"h264, opus\"" -> <<"v","i","d","e","o","/","w","e","b","m",";"," ","c","o","d","e","c","s","=","\"","h","2","6","4",","," ","o","p","u","s","\"">>
    [] m = "video/mp4" -> <<"v","i","d","e","o","/","m","p","4">>
    [] m = "video/webm" -> <<"v","i","d","e","o","/","w","e","b","m">>
    [] m = "video/webm;codecs=h264" -> <<"v","i","d","e","o","/","w","e","b","m",";","c","o","d","e","c","s","=","h","2","6","4">>
    [] m = "video/webm;codecs=vp9" -> <<"v","i","d","e","o","/","w","e","b","m",";","c","o","d","e","c","s","=","v","p","9">>

\* String.prototype.startsWith
startsWith(s, p) == Len(s) >= Len(p) /\ SubSeq(s, 1, Len(p)) = p

\* String.prototype.replace(/[...]/g, by): every character of the class
replaceAll(s, class, by) == [i \in 1..Len(s) |-> IF s[i] \in class THEN by ELSE s[i]]

\* String.prototype.replace(ch, by): the first occurrence only
replaceFirst(s, ch, by) ==
  IF \E i \in 1..Len(s) : s[i] = ch
  THEN LET k == CHOOSE i \in 1..Len(s) : s[i] = ch /\ \A j \in 1..(i-1) : s[j] # ch
       IN  [i \in 1..Len(s) |-> IF i = k THEN by ELSE s[i]]
  ELSE s

\* String.prototype.slice(0, n)
slice(s, n) == SubSeq(s, 1, IF Len(s) < n THEN Len(s) ELSE n)

DigitChar == <<"0","1","2","3","4","5","6","7","8","9">>

RECURSIVE padStart(_, _)
\* the decimal digits of n, zero-padded on the left to width w
padStart(n, w) == IF w = 0 THEN <<>> ELSE padStart(n \div 10, w - 1) \o <<DigitChar[(n % 10) + 1]>>

\* Date.prototype.toISOString for a four-digit year: YYYY-MM-DDTHH:mm:ss.sssZ
toISOString(d) ==
  padStart(d.Y, 4) \o <<"-">> \o padStart(d.M, 2) \o <<"-">> \o padStart(d.D, 2) \o <<"T">> \o
  padStart(d.h, 2) \o <<":">> \o padStart(d.m, 2) \o <<":">> \o padStart(d.s, 2) \o <<".">> \o
  padStart(d.ms, 3) \o <<"Z">>

\* the instants new Date() may return when a recording stops (UTC fields)
Clock == { [Y |-> 2024, M |-> 1, D |-> 15, h |-> 9, m |-> 30, s |-> 45, ms |-> 7] }

timestamp(now) == slice(replaceFirst(replaceAll(toISOString(now), {":", "."}, "-"), "T", "_"), 19)

FilePrefix == <<"s","h","a","d","e","r","t","o","y","-","r","e","c","o","r","d","i","n","g","_">>
ExtMp4 == <<".","m","p","4">>
ExtWebm == <<".","w","e","b","m">>
VideoWebm == <<"v","i","d","e","o","/","w","e","b","m">>

\* content.ts: ".mp4" unless the selected type starts with video/webm
fileExtension(mime) == IF startsWith(Chars(mime), VideoWebm) THEN ExtWebm ELSE ExtMp4

\* timestamp(now) for every instant of Clock, evaluated once
Timestamps == [now \in Clock |-> timestamp(now)]

downloadName(now, mime) == FilePrefix \o Timestamps[now] \o fileExtension(mime)

\* content.js: ".mp4" whatever the selected type
JsDownloadName(now, mime) == FilePrefix \o Timestamps[now] \o ExtMp4

\* ------------------------------------------------------ profile selection
mimeTypes == << "video/mp4; codecs=\"avc1.42E01E, mp4a.40.2\"",
                "video/webm; codecs=\"vp9, opus\"",
                "video/webm; codecs=\"vp8, opus\"",
                "video/webm; codecs=\"h264, opus\"",
                "video/mp4",
                "video/webm" >>

JsMimeTypes == << "video/mp4", "video/webm;codecs=h264", "video/webm;codecs=vp9", "video/webm" >>

Range(s) == { s[i] : i \in 1..Len(s) }

Undefined == "undefined"

RECURSIVE find(_, _)
\* Array.prototype.find(type => MediaRecorder.isTypeSupported(type)):
\* the first element the runtime supports, else undefined
find(types, supported) ==
  IF types = <<>> THEN Undefined
  ELSE IF Head(types) \in supported THEN Head(types)
  ELSE find(Tail(types), supported)

\* mutant: the list is searched from its end
selectedMimeType_fromEnd(supported) ==
  find([i \in 1..Len(mimeTypes) |-> mimeTypes[Len(mimeTypes) + 1 - i]], supported)

\* content.ts: const selectedMimeType = mimeTypes.find(...)
selectedMimeType(supported) == find(mimeTypes, supported)

\* the support assignments MediaRecorder.isTypeSupported is given in Spec and
\* SpecJs (SpecSelect ranges over all of them)
SupportCases == { {}, {"video/webm"}, Range(mimeTypes) \cup Range(JsMimeTypes) }

JsSelectedMimeType(supported) ==
  IF find(JsMimeTypes, supported) = Undefined THEN "video/webm" ELSE find(JsMimeTypes, supported)

\* ------------------------------------------------------------------ state
Kinds == {"video", "audio"}

VARIABLES
  mediaRecorder,   \* content.ts:12  the call whose MediaRecorder the module refers to, or NoCall
  recordedBlobs,   \* content.ts:13  sequence of <<encoder, index>>: the chunks held
  call,            \* per startRecording invocation: position, inputs seen, tracks, outcome
  recorder,        \* per invocation: the MediaRecorder it constructed (browser side)
  emitted,         \* per encoder: the sizes of the chunks it has emitted, in order
  downloads,       \* the artifacts saved (a.click()), in order
  links,           \* encoders whose download link awaits its setTimeout cleanup
  lastEvent,       \* what stopRecording logged, when it was the handler that ran last
  popup,           \* popup.tsx component state of the open popup
  storage,         \* chrome.storage.local recordingState
  probe            \* SpecSelect: one support assignment and the profile selected for it

pageVars == <<mediaRecorder, recordedBlobs, call, recorder, emitted, downloads, links>>
popupVars == <<popup, storage>>
vars == <<mediaRecorder, recordedBlobs, call, recorder, emitted, downloads, links,
          lastEvent, popup, storage, probe>>

NewCall == [pc |-> "unused", result |-> "none", canvas |-> "none", audio |-> "none",
            video |-> FALSE, tracks |-> {},
            stops |-> [k \in Kinds |-> 0], mime |-> Undefined,
            anySupported |-> FALSE, ctorThrew |-> FALSE,
            alerts |-> {}, console |-> {}]

NewRecorder == [state |-> "none", stopQueued |-> FALSE, stopFired |-> FALSE, faulted |-> FALSE]

ClosedPopup == [open |-> FALSE, currentTabId |-> FALSE, restoring |-> FALSE,
                isRecording |-> FALSE, awaiting |-> {}, stopPending |-> FALSE]

NoProbe == [supported |-> {}, selected |-> "unprobed", jsSelected |-> "unprobed"]

Init ==
  /\ mediaRecorder = NoCall
  /\ recordedBlobs = <<>>
  /\ call = [c \in Calls |-> NewCall]
  /\ recorder = [c \in Calls |-> NewRecorder]
  /\ emitted = [c \in Calls |-> <<>>]
  /\ downloads = <<>>
  /\ links = {}
  /\ lastEvent = "other"
  /\ popup = ClosedPopup
  /\ storage = "unset"
  /\ probe = NoProbe

\* the invocation a new startRecording call becomes
FreshCall(c) == call[c].pc = "unused" /\ \A d \in Calls : d < c => call[d].pc # "unused"

\* mutant: the tracks are left running
stopTracks_skipped(cr) == cr

\* combinedStream.getTracks().forEach(track => track.stop())
stopTracks(cr) == [cr EXCEPT !.stops = [k \in Kinds |-> IF k \in cr.tracks THEN @[k] + 1 ELSE @[k]]]

\* lastEvent keeps the console line of stopRecording while that call is the
\* latest step; any other handler overwrites it
Event(op, c, report) == IF op = "stopRecording" THEN report ELSE "other"

\* --------------------------------------------------- content.ts (the page)
\* mutant: the chunk sequence is reset before the canvas is looked up
startRecording_resetFirst(c, canvas) ==
  /\ FreshCall(c)
  /\ recordedBlobs' = <<>>
  /\ IF ~canvas
     THEN /\ call' = [call EXCEPT ![c] = [@ EXCEPT !.pc = "done", !.result = "SurfaceNotFound",
                                                  !.canvas = "absent",
                                                  !.alerts = @ \cup {"CanvasNotFound"}]]
          /\ lastEvent' = Event("startRecording", c, "SurfaceNotFound")
     ELSE /\ call' = [call EXCEPT ![c] = [@ EXCEPT !.pc = "awaitAudio", !.canvas = "found",
                                                  !.audio = "pending"]]
          /\ lastEvent' = Event("startRecording", c, "getUserMedia")
  /\ UNCHANGED <<mediaRecorder, recorder, emitted, downloads, links, probe>>

\* startRecording up to its await: the canvas lookup and the microphone request
startRecording(c, canvas) ==
  /\ FreshCall(c)
  /\ IF ~canvas
     THEN /\ call' = [call EXCEPT ![c] = [@ EXCEPT !.pc = "done", !.result = "SurfaceNotFound",
                                                  !.canvas = "absent",
                                                  !.alerts = @ \cup {"CanvasNotFound"}]]
          /\ lastEvent' = Event("startRecording", c, "SurfaceNotFound")
     ELSE /\ call' = [call EXCEPT ![c] = [@ EXCEPT !.pc = "awaitAudio", !.canvas = "found",
                                                  !.audio = "pending"]]
          /\ lastEvent' = Event("startRecording", c, "getUserMedia")
  /\ UNCHANGED <<mediaRecorder, recordedBlobs, recorder, emitted, downloads, links, probe>>

\* mutant: an audio track is combined even when the request was denied
tracksToCombine_audioAlways(nVideo, granted) ==
  (IF nVideo > 0 THEN {"video"} ELSE {}) \cup {"audio"}

\* the tracks of videoStream, and of audioStream when the request was granted
tracksToCombine(nVideo, granted) ==
  (IF nVideo > 0 THEN {"video"} ELSE {}) \cup (IF granted THEN {"audio"} ELSE {})

\* mutant: the empty stream is not detected
noTracks_unchecked(combined) == FALSE

\* if (tracksToCombine.length === 0)
noTracks(combined) == combined = {}

\* startRecording after getUserMedia settled
startRecordingResume(c, granted, nVideo, supported, ctorThrows) ==
  LET combined == tracksToCombine(nVideo, granted)
      mime == selectedMimeType(supported)
      heard == [call[c] EXCEPT !.pc = "done",
                               !.audio = IF granted THEN "granted" ELSE "denied",
                               !.alerts = IF granted THEN @ ELSE @ \cup {"AudioDenied"},
                               !.video = nVideo > 0,
                               !.tracks = combined,
                               !.anySupported = supported \cap Range(mimeTypes) # {}]
  IN
  /\ call[c].pc = "awaitAudio"
  /\ recordedBlobs' = <<>>
  /\ UNCHANGED <<emitted, downloads, links, probe>>
  /\ IF noTracks(combined)
     THEN /\ call' = [call EXCEPT ![c] = [stopTracks(heard) EXCEPT !.result = "NoTracksAvailable",
                                                                    !.alerts = @ \cup {"NoTracks"}]]
          /\ lastEvent' = Event("startRecordingResume", c, "NoTracksAvailable")
          /\ UNCHANGED <<mediaRecorder, recorder>>
     ELSE IF mime = Undefined
     THEN /\ call' = [call EXCEPT ![c] = [stopTracks(heard) EXCEPT !.result = "NoSupportedFormat",
                                                                    !.alerts = @ \cup {"NoMimeType"}]]
          /\ lastEvent' = Event("startRecordingResume", c, "NoSupportedFormat")
          /\ UNCHANGED <<mediaRecorder, recorder>>
     ELSE IF ctorThrows
     THEN /\ call' = [call EXCEPT ![c] = [stopTracks(heard) EXCEPT !.result = "EncoderFault",
                                                                    !.mime = mime,
                                                                    !.ctorThrew = TRUE,
                                                                    !.alerts = @ \cup {"CreateFailed"}]]
          /\ lastEvent' = Event("startRecordingResume", c, "EncoderFault")
          /\ UNCHANGED <<mediaRecorder, recorder>>
     ELSE /\ call' = [call EXCEPT ![c] = [heard EXCEPT !.result = "started", !.mime = mime]]
          /\ mediaRecorder' = c
          /\ recorder' = [recorder EXCEPT ![c].state = "recording"]
          /\ lastEvent' = Event("startRecordingResume", c, "started")

\* mediaRecorder.ondataavailable of encoder s, for its next chunk of the given size
ondataavailable(s, size) ==
  /\ emitted' = [emitted EXCEPT ![s] = Append(@, size)]
  /\ recordedBlobs' = IF size > 0 THEN Append(recordedBlobs, <<s, Len(emitted[s]) + 1>>)
                      ELSE recordedBlobs
  /\ lastEvent' = Event("ondataavailable", s, IF size > 0 THEN "pushed" ELSE "skipped")
  /\ UNCHANGED <<mediaRecorder, call, recorder, downloads, links, probe>>

\* mutant: the profile of the most recent call that selected one
closureMimeType_latest(s) ==
  call[CHOOSE c \in Calls : call[c].mime # Undefined /\
                            \A d \in Calls : call[d].mime # Undefined => d <= c].mime

\* selectedMimeType as the handlers of call s captured it
closureMimeType(s) == call[s].mime

\* mediaRecorder.onstop of encoder s
onstop(s, now, throws) ==
  /\ recorder' = [recorder EXCEPT ![s].stopFired = TRUE]
  /\ IF recordedBlobs = <<>>
     THEN /\ call' = [call EXCEPT ![s] = [stopTracks(@) EXCEPT !.console = @ \cup {"NoData"}]]
          /\ lastEvent' = Event("onstop", s, "NoData")
          /\ UNCHANGED <<downloads, links>>
     ELSE IF throws
     THEN /\ call' = [call EXCEPT ![s] = [stopTracks(@) EXCEPT !.alerts = @ \cup {"SaveError"}]]
          /\ lastEvent' = Event("onstop", s, "SaveError")
          /\ UNCHANGED <<downloads, links>>
     ELSE /\ downloads' = Append(downloads, [by |-> s, parts |-> recordedBlobs,
                                             type |-> closureMimeType(s), now |-> now,
                                             name |-> downloadName(now, closureMimeType(s))])
          /\ links' = links \cup {s}
          /\ call' = [call EXCEPT ![s] = stopTracks(@)]
          /\ lastEvent' = Event("onstop", s, "saved")
  /\ mediaRecorder' = NoCall
  /\ UNCHANGED <<recordedBlobs, emitted, probe>>

\* mediaRecorder.onerror of encoder s
onerror(s) ==
  /\ call' = [call EXCEPT ![s] = [stopTracks(@) EXCEPT !.alerts = @ \cup {"RecorderError"}]]
  /\ mediaRecorder' = NoCall
  /\ lastEvent' = Event("onerror", s, "RecorderError")
  /\ UNCHANGED <<recordedBlobs, emitted, downloads, links, probe>>

\* the setTimeout callback of onstop: the link is removed and its URL revoked
cleanup(s) ==
  /\ s \in links
  /\ links' = links \ {s}
  /\ lastEvent' = Event("cleanup", s, "revoked")
  /\ UNCHANGED <<mediaRecorder, recordedBlobs, call, recorder, emitted, downloads, probe>>

\* mutant: stop is sent whenever a recorder is referenced, whatever its state
stopRecording_noStateCheck ==
  /\ IF mediaRecorder # NoCall
     THEN /\ recorder' = [recorder EXCEPT ![mediaRecorder] = [@ EXCEPT !.state = "inactive",
                                                                       !.stopQueued = TRUE]]
          /\ lastEvent' = Event("stopRecording", mediaRecorder, "stop sent")
     ELSE /\ lastEvent' = Event("stopRecording", mediaRecorder, "not active")
          /\ UNCHANGED recorder
  /\ UNCHANGED <<mediaRecorder, recordedBlobs, call, emitted, downloads, links, probe>>

\* mutant: the tracks are stopped and the reference dropped by stopRecording itself
stopRecording_releasesNow ==
  /\ IF mediaRecorder # NoCall /\ recorder[mediaRecorder].state \in {"recording", "paused"}
     THEN /\ recorder' = [recorder EXCEPT ![mediaRecorder] = [@ EXCEPT !.state = "inactive",
                                                                       !.stopQueued = TRUE]]
          /\ call' = [call EXCEPT ![mediaRecorder] = stopTracks(@)]
          /\ lastEvent' = Event("stopRecording", mediaRecorder, "stop sent")
     ELSE /\ lastEvent' = Event("stopRecording", mediaRecorder, "not active")
          /\ UNCHANGED <<recorder, call>>
  /\ UNCHANGED <<mediaRecorder, recordedBlobs, emitted, downloads, links, probe>>

\* stopRecording()
stopRecording ==
  /\ IF mediaRecorder # NoCall /\ recorder[mediaRecorder].state \in {"recording", "paused"}
     THEN /\ recorder' = [recorder EXCEPT ![mediaRecorder] = [@ EXCEPT !.state = "inactive",
                                                                       !.stopQueued = TRUE]]
          /\ lastEvent' = Event("stopRecording", mediaRecorder, "stop sent")
     ELSE /\ lastEvent' = Event("stopRecording", mediaRecorder, "not active")
          /\ UNCHANGED recorder
  /\ UNCHANGED <<mediaRecorder, recordedBlobs, call, emitted, downloads, links, probe>>

\* ------------------------------------------- the browser's MediaRecorder
\* The encoder may still deliver data: it is recording, or it was inactivated
\* (stop() or a fault) and its stop event has not fired yet.
Delivering(s) ==
  /\ ~recorder[s].stopFired
  /\ recorder[s].state = "recording" \/ recorder[s].stopQueued

\* dataavailable event of encoder s
DataAvailable ==
  \E s \in Calls, size \in {0, 1} :
    /\ Delivering(s)
    /\ Len(emitted[s]) < MaxChunks
    /\ ondataavailable(s, size)
    /\ UNCHANGED popupVars

\* stop event of encoder s: once, after stop() or after a fault inactivated it
StopEvent ==
  \E s \in Calls, now \in Clock, throws \in BOOLEAN :
    /\ recorder[s].stopQueued /\ ~recorder[s].stopFired
    /\ onstop(s, now, throws)
    /\ UNCHANGED popupVars

\* error event of encoder s: the encoder is inactivated and its stop event queued
ErrorEvent ==
  \E s \in Calls :
    /\ Delivering(s) /\ ~recorder[s].faulted
    /\ recorder' = [recorder EXCEPT ![s] = [@ EXCEPT !.state = "inactive", !.stopQueued = TRUE,
                                                     !.faulted = TRUE]]
    /\ onerror(s)
    /\ UNCHANGED popupVars

\* the 100 ms timer set by onstop
CleanupTimer ==
  \E s \in Calls : cleanup(s) /\ UNCHANGED popupVars

\* getUserMedia settles for a pending startRecording call
AudioSettled ==
  \E c \in Calls, granted \in BOOLEAN, nVideo \in 0..1,
     supported \in SupportCases, ctorThrows \in BOOLEAN :
    /\ startRecordingResume(c, granted, nVideo, supported, ctorThrows)
    /\ UNCHANGED popupVars

\* startRecording() on a page that has the ShaderToy canvas
StartRequestedOnShader ==
  \E c \in Calls :
    /\ startRecording(c, TRUE)
    /\ UNCHANGED popupVars

\* getUserMedia settles either way in a browser where the canvas yields a
\* video track, every candidate profile is supported and construction succeeds
AudioSettledCapable ==
  \E c \in Calls, granted \in BOOLEAN :
    /\ startRecordingResume(c, granted, 1, Range(mimeTypes), FALSE)
    /\ UNCHANGED popupVars

\* dataavailable event of encoder s carrying data
DataAvailableNonEmpty ==
  \E s \in Calls :
    /\ Delivering(s)
    /\ Len(emitted[s]) < MaxChunks
    /\ ondataavailable(s, 1)
    /\ UNCHANGED popupVars

\* ----------------------------------------------------------- popup.tsx
\* the popup is opened: a fresh component, chrome.tabs.query issued
PopupOpen ==
  /\ ~popup.open
  /\ popup' = [ClosedPopup EXCEPT !.open = TRUE]
  /\ lastEvent' = Event("popup", NoCall, "opened")
  /\ UNCHANGED <<pageVars, storage, probe>>

\* chrome.tabs.query callback: the tab id is set, the storage read is issued
TabQueryDone ==
  /\ popup.open /\ ~popup.currentTabId
  /\ popup' = [popup EXCEPT !.currentTabId = TRUE, !.restoring = TRUE]
  /\ lastEvent' = Event("popup", NoCall, "tab")
  /\ UNCHANGED <<pageVars, storage, probe>>

\* chrome.storage.local.get callback
StorageRestored ==
  /\ popup.open /\ popup.restoring
  /\ popup' = [popup EXCEPT !.restoring = FALSE, !.isRecording = (storage = "recording")]
  /\ lastEvent' = Event("popup", NoCall, "restored")
  /\ UNCHANGED <<pageVars, storage, probe>>

\* Start button: executeScript runs window.startRecording() in the page
handleStart ==
  \E c \in Calls, canvas \in BOOLEAN :
    /\ popup.open /\ popup.currentTabId /\ ~popup.isRecording
    /\ startRecording(c, canvas)
    /\ popup' = [popup EXCEPT !.awaiting = @ \cup {c}]
    /\ UNCHANGED storage

\* handleStart after its await: the call's promise resolved
handleStartDone ==
  \E c \in popup.awaiting :
    /\ call[c].pc = "done"
    /\ popup' = [popup EXCEPT !.awaiting = @ \ {c}, !.isRecording = TRUE]
    /\ storage' = "recording"
    /\ lastEvent' = Event("popup", c, "recording")
    /\ UNCHANGED <<pageVars, probe>>

\* Stop button: executeScript runs window.stopRecording() in the page
handleStop ==
  /\ popup.open /\ popup.currentTabId /\ popup.isRecording
  /\ stopRecording
  /\ popup' = [popup EXCEPT !.stopPending = TRUE]
  /\ UNCHANGED storage

\* handleStop after its await: state reset, storage written, window.close()
handleStopDone ==
  /\ popup.open /\ popup.stopPending
  /\ popup' = ClosedPopup
  /\ storage' = "stopped"
  /\ lastEvent' = Event("popup", NoCall, "stopped")
  /\ UNCHANGED <<pageVars, probe>>

\* the user dismisses the popup: its pending continuations never run
PopupClose ==
  /\ popup.open
  /\ popup' = ClosedPopup
  /\ lastEvent' = Event("popup", NoCall, "closed")
  /\ UNCHANGED <<pageVars, storage, probe>>

\* popup.tsx and the page together, in a capable browser
NextPopup ==
  \/ PopupOpen
  \/ TabQueryDone
  \/ StorageRestored
  \/ handleStart
  \/ handleStartDone
  \/ handleStop
  \/ handleStopDone
  \/ PopupClose
  \/ AudioSettledCapable
  \/ DataAvailableNonEmpty
  \/ StopEvent
  \/ ErrorEvent
  \/ CleanupTimer

SpecPopup == Init /\ [][NextPopup]_vars

\* ------------------------------------------------ the page's entry points
\* window.startRecording() is run by the popup's Start button.  The button is
\* enabled whenever the popup's isRecording is false, which a freshly opened
\* popup has in every state of the page (popup.tsx:21, 134), so the page can
\* receive the call in any state.
StartRequested ==
  \E c \in Calls, canvas \in BOOLEAN :
    /\ startRecording(c, canvas)
    /\ UNCHANGED popupVars

\* window.stopRecording() is run by the popup's Stop button, which is enabled
\* once isRecording is true: after some startRecording call has resolved
\* (popup.tsx:93, 137), or after reopening while storage says "recording".
StopRequested ==
  /\ \E c \in Calls : call[c].pc = "done"
  /\ stopRecording
  /\ UNCHANGED popupVars

Next ==
  \/ StartRequested
  \/ StopRequested
  \/ AudioSettled
  \/ DataAvailable
  \/ StopEvent
  \/ ErrorEvent
  \/ CleanupTimer

Spec == Init /\ [][Next]_vars

\* ------------------------------------- shadertoy-recorder/content.js
\* startRecording(): synchronous, video only
JsStartRecording(c, canvas, nVideo, supported, ctorThrows) ==
  LET mime == JsSelectedMimeType(supported)
      got == [call[c] EXCEPT !.pc = "done", !.mime = mime, !.canvas = "found",
                             !.video = nVideo > 0,
                             !.tracks = IF nVideo > 0 THEN {"video"} ELSE {},
                             !.anySupported = supported \cap Range(JsMimeTypes) # {}]
  IN
  /\ FreshCall(c)
  /\ lastEvent' = Event("startRecording", c, "")
  /\ UNCHANGED <<emitted, downloads, links, probe>>
  /\ IF ~canvas
     THEN /\ call' = [call EXCEPT ![c] = [@ EXCEPT !.pc = "done", !.result = "SurfaceNotFound",
                                                  !.canvas = "absent",
                                                  !.alerts = @ \cup {"CanvasNotFound"}]]
          /\ UNCHANGED <<mediaRecorder, recordedBlobs, recorder>>
     ELSE /\ recordedBlobs' = <<>>
          /\ IF mime \notin supported \/ ctorThrows
             THEN \* new MediaRecorder throws; nothing catches it
                  /\ call' = [call EXCEPT ![c] = [got EXCEPT !.result = "threw", !.ctorThrew = TRUE]]
                  /\ UNCHANGED <<mediaRecorder, recorder>>
             ELSE /\ call' = [call EXCEPT ![c] = [got EXCEPT !.result = "started"]]
                  /\ mediaRecorder' = c
                  /\ recorder' = [recorder EXCEPT ![c].state = "recording"]

\* mediaRecorder.onstop of encoder s
JsOnstop(s, now, throws) ==
  /\ recorder' = [recorder EXCEPT ![s].stopFired = TRUE]
  /\ lastEvent' = Event("onstop", s, "")
  /\ IF recordedBlobs = <<>>
     THEN /\ call' = [call EXCEPT ![s].console = @ \cup {"NoData"}]
          /\ UNCHANGED <<downloads, links>>
     ELSE IF throws
     THEN /\ call' = [call EXCEPT ![s].alerts = @ \cup {"SaveError"}]
          /\ UNCHANGED <<downloads, links>>
     ELSE /\ downloads' = Append(downloads, [by |-> s, parts |-> recordedBlobs,
                                             type |-> call[s].mime, now |-> now,
                                             name |-> JsDownloadName(now, call[s].mime)])
          /\ links' = links \cup {s}
          /\ UNCHANGED call
  /\ UNCHANGED <<mediaRecorder, recordedBlobs, emitted, probe>>

\* the setTimeout callback of onstop: link removed, URL revoked, tracks stopped
JsCleanup(s) ==
  /\ s \in links
  /\ links' = links \ {s}
  /\ call' = [call EXCEPT ![s] = stopTracks(@)]
  /\ lastEvent' = Event("cleanup", s, "")
  /\ UNCHANGED <<mediaRecorder, recordedBlobs, recorder, emitted, downloads, probe>>

\* stopRecording()
JsStopRecording ==
  /\ IF mediaRecorder # NoCall /\ recorder[mediaRecorder].state = "recording"
     THEN /\ recorder' = [recorder EXCEPT ![mediaRecorder] = [@ EXCEPT !.state = "inactive",
                                                                       !.stopQueued = TRUE]]
          /\ lastEvent' = Event("stopRecording", mediaRecorder, "stop sent")
     ELSE /\ lastEvent' = Event("stopRecording", mediaRecorder, "other")
          /\ UNCHANGED recorder
  /\ UNCHANGED <<mediaRecorder, recordedBlobs, call, emitted, downloads, links, probe>>

\* popup.js start button
JsStartRequested ==
  \E c \in Calls, canvas \in BOOLEAN, nVideo \in 0..1, supported \in SupportCases,
     ctorThrows \in BOOLEAN :
    /\ JsStartRecording(c, canvas, nVideo, supported, ctorThrows)
    /\ UNCHANGED popupVars

\* popup.js stop button
JsStopRequested ==
  /\ \E c \in Calls : call[c].pc = "done"
  /\ JsStopRecording
  /\ UNCHANGED popupVars

JsDataAvailable ==
  \E s \in Calls, size \in {0, 1} :
    /\ Delivering(s)
    /\ Len(emitted[s]) < MaxChunks
    /\ ondataavailable(s, size)
    /\ UNCHANGED popupVars

JsStopEvent ==
  \E s \in Calls, now \in Clock, throws \in BOOLEAN :
    /\ recorder[s].stopQueued /\ ~recorder[s].stopFired
    /\ JsOnstop(s, now, throws)
    /\ UNCHANGED popupVars

\* error event of encoder s: content.js sets no onerror; the encoder is
\* inactivated and its stop event queued
JsErrorEvent ==
  \E s \in Calls :
    /\ Delivering(s) /\ ~recorder[s].faulted
    /\ recorder' = [recorder EXCEPT ![s] = [@ EXCEPT !.state = "inactive", !.stopQueued = TRUE,
                                                     !.faulted = TRUE]]
    /\ lastEvent' = Event("error", s, "")
    /\ UNCHANGED <<mediaRecorder, recordedBlobs, call, emitted, downloads, links, probe, popup, storage>>

JsCleanupTimer ==
  \E s \in Calls : JsCleanup(s) /\ UNCHANGED popupVars

NextJs ==
  \/ JsStartRequested
  \/ JsStopRequested
  \/ JsDataAvailable
  \/ JsStopEvent
  \/ JsErrorEvent
  \/ JsCleanupTimer

SpecJs == Init /\ [][NextJs]_vars

\* ------------------------------------------- profile selection, probed
InitSelect == Init

\* one support assignment is fixed and both candidate lists are searched
Probe ==
  \E supported \in SUBSET (Range(mimeTypes) \cup Range(JsMimeTypes)) :
    /\ probe = NoProbe
    /\ probe' = [supported |-> supported, selected |-> selectedMimeType(supported),
                 jsSelected |-> JsSelectedMimeType(supported)]
    /\ UNCHANGED <<pageVars, lastEvent, popup, storage>>

NextSelect == Probe

SpecSelect == InitSelect /\ [][NextSelect]_vars

\* ================================================================ claims
\* lifecycle of the session of call s, read off the encoder
Recording(s) == recorder[s].state = "recording"
Stopping(s) == recorder[s].stopQueued /\ ~recorder[s].stopFired /\ ~recorder[s].faulted
Errored(s) == recorder[s].faulted
StartFailed(c) == call[c].result \in {"NoTracksAvailable", "NoSupportedFormat", "EncoderFault", "threw"}
Terminated(c) == StartFailed(c) \/ recorder[c].stopFired \/ recorder[c].faulted
Released(c) == \A k \in call[c].tracks : call[c].stops[k] >= 1

\* the non-empty chunks encoder s emitted, in emission order
NonEmptyChunks(s) ==
  SelectSeq([k \in 1..Len(emitted[s]) |-> <<s, k>>], LAMBDA x : emitted[s][x[2]] > 0)

ArtifactsBy(s) == { i \in 1..Len(downloads) : downloads[i].by = s }

\* C1: every track a startRecording call acquired is stopped exactly once:
\* never more than once, and once the session has terminated (start failure,
\* stop-completion or encoder fault) it has been stopped.
C1_TracksStoppedExactlyOnce ==
  \A c \in Calls : \A k \in call[c].tracks :
    /\ call[c].stops[k] <= 1
    /\ Terminated(c) => call[c].stops[k] = 1

\* C2: every artifact is assembled from a non-empty chunk sequence that is
\* exactly the non-empty chunks of the session's own encoder, in emission order.
C2_ArtifactIsOwnChunksInOrder ==
  \A i \in 1..Len(downloads) :
    /\ downloads[i].parts # <<>>
    /\ downloads[i].parts = NonEmptyChunks(downloads[i].by)

\* C3: for every support assignment the selected profile is the supported
\* candidate of lowest index in the ranked list (none when none is supported).
C3_SelectsFirstSupported ==
  probe.selected # "unprobed" =>
    \/ /\ probe.selected = Undefined
       /\ \A i \in 1..Len(mimeTypes) : mimeTypes[i] \notin probe.supported
    \/ \E i \in 1..Len(mimeTypes) :
         /\ probe.selected = mimeTypes[i]
         /\ mimeTypes[i] \in probe.supported
         /\ \A j \in 1..(i - 1) : mimeTypes[j] \notin probe.supported

\* C3 witness: first candidate unsupported, second and third supported, second selected
C3_Witness ==
  /\ mimeTypes[1] \notin probe.supported
  /\ mimeTypes[2] \in probe.supported
  /\ mimeTypes[3] \in probe.supported
  /\ probe.selected = mimeTypes[2]

IsMp4Family(m) == startsWith(Chars(m), <<"v","i","d","e","o","/","m","p","4">>)

\* YYYY-MM-DD_HH-MM-SS of an instant
StampOf(d) ==
  padStart(d.Y, 4) \o <<"-">> \o padStart(d.M, 2) \o <<"-">> \o padStart(d.D, 2) \o <<"_">> \o
  padStart(d.h, 2) \o <<"-">> \o padStart(d.m, 2) \o <<"-">> \o padStart(d.s, 2)

\* C4: every artifact is named shadertoy-recording_<YYYY-MM-DD_HH-MM-SS>.<ext>
\* with ext mp4 exactly when the session's selected container is MP4-family,
\* webm otherwise.
C4_NameMatchesContainer ==
  \A i \in 1..Len(downloads) :
    downloads[i].name =
      FilePrefix \o StampOf(downloads[i].now) \o
      (IF IsMp4Family(downloads[i].type) THEN ExtMp4 ELSE ExtWebm)

\* C5: a stop-completion that finds the chunk sequence empty is reported on the
\* console only, saves nothing, and leaves every track of the session stopped.
C5_EmptyStopReleasesTracks ==
  [][\A s \in Calls :
       (~recorder[s].stopFired /\ recorder'[s].stopFired /\ recordedBlobs = <<>>) =>
         /\ "NoData" \in call'[s].console
         /\ call'[s].alerts = call[s].alerts
         /\ downloads' = downloads
         /\ links' = links
         /\ \A k \in call'[s].tracks : call'[s].stops[k] >= 1]_vars

\* C6: a call whose microphone request was denied is never aborted by the
\* denial: its stream has no audio track, the denial is reported, and with a
\* video track, a supported profile and a constructible encoder it has started
\* recording over exactly the video track.
C6_AudioDenialIsVideoOnly ==
  \A c \in Calls :
    (call[c].pc = "done" /\ call[c].audio = "denied") =>
      /\ "audio" \notin call[c].tracks
      /\ "AudioDenied" \in call[c].alerts
      /\ (call[c].video /\ call[c].anySupported /\ ~call[c].ctorThrew) =>
           /\ call[c].result = "started"
           /\ call[c].tracks = {"video"}
           /\ recorder[c].state # "none"

\* C6 witness: a session without audio was stopped and its artifact saved
C6_Witness ==
  \E c \in Calls :
    /\ call[c].audio = "denied" /\ call[c].tracks = {"video"}
    /\ ArtifactsBy(c) # {}
    /\ call[c].stops["video"] = 1

\* C7: stopRecording called while no session is RECORDING logs that and changes
\* nothing: no stop request, no track stopped, no artifact, mediaRecorder and
\* recordedBlobs as they were.
C7_StopWhenNotRecordingIsNoop ==
  [][(lastEvent' # "other" /\ \A s \in Calls : ~Recording(s)) =>
       /\ lastEvent' = "not active"
       /\ UNCHANGED pageVars]_vars

\* C7 witness: the call was made while the session was already stopping
C7_Witness ==
  /\ lastEvent = "not active"
  /\ mediaRecorder # NoCall
  /\ Stopping(mediaRecorder)
  /\ recordedBlobs # <<>>

\* C8: a faulted session is reported, has all its tracks released and never
\* produces an artifact, whatever the encoder delivers after the fault.
C8_FaultNeverYieldsArtifact ==
  \A s \in Calls :
    Errored(s) =>
      /\ "RecorderError" \in call[s].alerts
      /\ Released(s)
      /\ ArtifactsBy(s) = {}

\* C9: a call that finds no candidate supported fails with NoSupportedFormat:
\* the notice is shown, no encoder exists for it, it is not the module's
\* session, and all its tracks are stopped.
C9_NoSupportedFormatReleasesAll ==
  \A c \in Calls :
    (call[c].pc = "done" /\ call[c].canvas = "found" /\ call[c].result # "NoTracksAvailable"
       /\ ~call[c].anySupported) =>
      /\ call[c].result = "NoSupportedFormat"
      /\ "NoMimeType" \in call[c].alerts
      /\ recorder[c].state = "none"
      /\ mediaRecorder # c
      /\ Released(c)

\* C10: a call that finds no canvas fails with SurfaceNotFound at once: notice
\* shown, no microphone request, no track, no encoder, mediaRecorder and
\* recordedBlobs untouched.
C10_SurfaceNotFoundTouchesNothing ==
  [][\A c \in Calls :
       (call[c].pc = "unused" /\ call'[c].canvas = "absent") =>
         /\ call'[c].pc = "done"
         /\ call'[c].result = "SurfaceNotFound"
         /\ "CanvasNotFound" \in call'[c].alerts
         /\ call'[c].audio = "none"
         /\ call'[c].tracks = {}
         /\ recorder' = recorder
         /\ mediaRecorder' = mediaRecorder
         /\ recordedBlobs' = recordedBlobs
         /\ emitted' = emitted /\ downloads' = downloads]_vars

\* C10 witness: the call failed while an earlier session was recording with chunks held
C10_Witness ==
  \E c, s \in Calls :
    /\ call[c].result = "SurfaceNotFound"
    /\ Recording(s) /\ mediaRecorder = s
    /\ recordedBlobs # <<>>

\* what the environment gave a finished call no track at all
NoTrackOffered(c) == ~call[c].video /\ call[c].audio = "denied"

\* C11: every internal failure of startRecording (no canvas, no track, no
\* supported profile, encoder construction failure) ends the call by a plain
\* return with its notice shown, no encoder of its own, and its tracks stopped.
C11_StartFailuresReportedAndReleased ==
  \A c \in Calls :
    call[c].pc = "done" =>
      LET expected ==
            IF call[c].canvas = "absent" THEN <<"SurfaceNotFound", "CanvasNotFound">>
            ELSE IF NoTrackOffered(c) THEN <<"NoTracksAvailable", "NoTracks">>
            ELSE IF ~call[c].anySupported THEN <<"NoSupportedFormat", "NoMimeType">>
            ELSE IF call[c].ctorThrew THEN <<"EncoderFault", "CreateFailed">>
            ELSE <<"started", "">>
      IN  /\ call[c].result = expected[1]
          /\ expected[1] # "started" =>
               /\ expected[2] \in call[c].alerts
               /\ recorder[c].state = "none"
               /\ mediaRecorder # c
               /\ Released(c)
               /\ \A k \in call[c].tracks : call[c].stops[k] = 1

\* C11 witness: construction failed for a call holding a video and an audio track
C11_Witness ==
  \E c \in Calls :
    /\ call[c].result = "EncoderFault"
    /\ call[c].tracks = Kinds
    /\ \A k \in Kinds : call[c].stops[k] = 1

C16_ProfileFixedPerSession ==
  [][/\ \A s \in Calls : call[s].result = "started" => call'[s].mime = call[s].mime
     /\ \A i \in 1..Len(downloads') :
          /\ downloads'[i].type = call'[downloads'[i].by].mime
          /\ downloads'[i].name = FilePrefix \o StampOf(downloads'[i].now) \o
               (IF IsMp4Family(call'[downloads'[i].by].mime) THEN ExtMp4 ELSE ExtWebm)]_vars

\* C16 witness: an artifact was saved by a session while a later call had
\* selected a profile of the other container
C16_Witness ==
  \E i \in 1..Len(downloads), c \in Calls :
    /\ downloads[i].by < c
    /\ call[c].mime # Undefined
    /\ IsMp4Family(call[c].mime) # IsMp4Family(downloads[i].type)
    /\ ~recorder[c].stopFired

\* C17: an encoder exists only over a stream with at least one track; a call
\* that obtained no track fails with NoTracksAvailable and constructs nothing.
C17_EncoderNeedsATrack ==
  \A c \in Calls :
    /\ recorder[c].state # "none" => call[c].tracks # {} /\ ~NoTrackOffered(c)
    /\ (call[c].pc = "done" /\ call[c].canvas = "found" /\ NoTrackOffered(c)) =>
         /\ call[c].result = "NoTracksAvailable"
         /\ "NoTracks" \in call[c].alerts
         /\ recorder[c].state = "none"
         /\ mediaRecorder # c
         /\ Released(c)

\* C17 witness: a call found the canvas and obtained neither a video nor an audio track
C17_Witness ==
  \E c \in Calls : call[c].result = "NoTracksAvailable" /\ call[c].tracks = {}

NextLive ==
  \/ StartRequestedOnShader
  \/ StopRequested
  \/ AudioSettledCapable
  \/ DataAvailableNonEmpty
  \/ StopEvent
  \/ ErrorEvent
  \/ CleanupTimer

\* the page in a capable browser, the encoder delivering every queued stop event
SpecLive == Init /\ [][NextLive]_vars /\ WF_vars(StopEvent)

\* the outcome of a session whose stop-completion ran
Outcome(s) ==
  IF recorder[s].faulted THEN "ERRORED"
  ELSE IF "NoData" \in call[s].console THEN "EmptyRecording"
  ELSE IF ArtifactsBy(s) # {} THEN "FINALIZED"
  ELSE IF "SaveError" \in call[s].alerts THEN "SaveFailed"
  ELSE "none"

\* C13: once stop is queued for a session (by stopRecording or by a fault), the
\* session eventually terminates with an outcome, all its tracks stopped and the
\* module-level reference no longer pointing at it.
C13_StopRequestedTerminates ==
  \A s \in Calls :
    recorder[s].stopQueued ~>
      /\ recorder[s].stopFired
      /\ Outcome(s) # "none"
      /\ Released(s)
      /\ mediaRecorder # s

\* C13 witness: a session stopped by stopRecording was finalized with an
\* artifact, its tracks stopped and the reference cleared
C13_Witness ==
  \E s \in Calls :
    /\ recorder[s].stopFired /\ ~recorder[s].faulted
    /\ Outcome(s) = "FINALIZED"
    /\ call[s].tracks # {} /\ Released(s)
    /\ mediaRecorder = NoCall

\* C15: while the module-level reference points at another, recording session,
\* a session's chunk callback leaves recordedBlobs alone, its stop or fault
\* handling leaves the reference alone, and no artifact holds another session's chunk.
C15_SessionsDoNotInterfere ==
  [][\A s \in Calls :
       /\ (mediaRecorder \notin {s, NoCall} /\ Recording(mediaRecorder)) =>
            /\ emitted'[s] # emitted[s] => recordedBlobs' = recordedBlobs
            /\ (~recorder[s].stopFired /\ recorder'[s].stopFired) => mediaRecorder' = mediaRecorder
            /\ (~recorder[s].faulted /\ recorder'[s].faulted) => mediaRecorder' = mediaRecorder
       /\ \A i \in ArtifactsBy(s)' :
            \A j \in 1..Len(downloads'[i].parts) : downloads'[i].parts[j][1] = s]_vars

\* a session whose stop-completion ran or whose fault handler ran
Terminal(s) == recorder[s].stopFired \/ recorder[s].faulted

\* C18: an encoder never returns to recording, stop-completion needs a queued
\* stop and is handled once, a session has at most one artifact, and after its
\* stop-completion or its fault no chunk of it is appended and no artifact of
\* it is produced.
C18_TerminalStatesAbsorbing ==
  [][\A s \in Calls :
       /\ recorder[s].state = "inactive" => recorder'[s].state = "inactive"
       /\ (~recorder[s].stopFired /\ recorder'[s].stopFired) => recorder[s].stopQueued
       /\ recorder[s].stopFired => recorder'[s].stopFired /\ call'[s] = call[s]
       /\ Cardinality(ArtifactsBy(s)') <= 1
       /\ Terminal(s) =>
            /\ emitted'[s] = emitted[s]
            /\ ArtifactsBy(s)' = ArtifactsBy(s)]_vars

\* a session whose encoder records, or whose stop event is still to come
Active(s) == Recording(s) \/ (recorder[s].stopQueued /\ ~recorder[s].stopFired)

\* C14: no step of the popup invokes startRecording in the page while a
\* session is recording or waiting for its stop-completion.
C14_PopupStartsOnlyWhenIdle ==
  [][\A c \in Calls :
       (call[c].pc = "unused" /\ call'[c].pc # "unused") => \A s \in Calls : ~Active(s)]_vars

\* C19: when handleStart, after its await on call c, sets isRecording and
\* persists "recording", call c started a capture session.
C19_PopupRecordingMeansStarted ==
  [][\A c \in Calls :
       (c \in popup.awaiting /\ c \notin popup'.awaiting /\
        popup'.isRecording /\ storage' = "recording") => call[c].result = "started"]_vars

====
